---- MODULE Spec2Model ----
(***************************************************************************)
(* A model of gosvg (src/svg.go): the node tree, the attribute bundles,    *)
(* the path-command encoder and the recursive renderer.                    *)
(*                                                                         *)
(* Strings are TLA+ strings; TLC evaluates \o, Len, Head, Tail and SubSeq  *)
(* on them.  A float64 is modelled by an integer (every value used is an   *)
(* integer that float64 represents exactly), and %g is computed digit by   *)
(* digit by FormatG.  Pointers are indices into the heap `nodes`.          *)
(***************************************************************************)
EXTENDS Integers, Sequences, FiniteSets, TLC

VARIABLES
    nodes,   \* the heap of document nodes; nodes[1] is the root *SVG
    built,   \* history: the construction calls made, as <<parent, child>>
    run      \* the outcome of the render invocation that has just returned

vars == <<nodes, built, run>>

(***************************************************************************)
(* Bounds of the model.                                                    *)
(***************************************************************************)
MaxNodes == 2        \* nodes constructed below the root (tree specification)
MaxCmds == 2         \* commands appended to one path (path specification)
MaxAttrNodes == 1    \* nodes below the root (attribute specification)
MaxAttrs == 2        \* attribute settings made in one tree (attribute specification)

(***************************************************************************)
(* Text helpers: strings.Join and the %g verb of fmt.Sprintf.              *)
(***************************************************************************)
\* strings.Join, computed by halving the range (the recursion stays shallow).
RECURSIVE JoinRange(_, _, _, _)
JoinRange(elems, sep, lo, hi) ==
    IF lo > hi THEN ""
    ELSE IF lo = hi THEN elems[lo]
    ELSE JoinRange(elems, sep, lo, (lo + hi) \div 2) \o sep
         \o JoinRange(elems, sep, (lo + hi) \div 2 + 1, hi)

Join(elems, sep) == JoinRange(elems, sep, 1, Len(elems))

DigitChar(d) == SubSeq("0123456789", d + 1, d + 1)

RECURSIVE DecStr(_)
DecStr(n) == IF n < 10 THEN DigitChar(n) ELSE DecStr(n \div 10) \o DigitChar(n % 10)

RECURSIVE StripZeros(_)
StripZeros(s) ==
    IF Len(s) > 1 /\ SubSeq(s, Len(s), Len(s)) = "0"
    THEN StripZeros(SubSeq(s, 1, Len(s) - 1))
    ELSE s

\* strconv's shortest %g of an integer, from its decimal digits D: %e when the
\* decimal exponent is 6 or more (the digits without their trailing zeros, a
\* point after the first, an exponent of at least two digits), the plain
\* digits otherwise.
Mantissa(digs) == IF Len(digs) > 1 THEN Head(digs) \o "." \o Tail(digs) ELSE digs

ExpStr(exp) == IF exp < 10 THEN "0" \o DecStr(exp) ELSE DecStr(exp)

FormatDigits(D) ==
    IF Len(D) - 1 >= 6 THEN Mantissa(StripZeros(D)) \o "e+" \o ExpStr(Len(D) - 1) ELSE D

FormatG(n) ==
    (IF n < 0 THEN "-" ELSE "") \o FormatDigits(DecStr(IF n < 0 THEN 0 - n ELSE n))

floatAttr(name, val) == name \o "=\"" \o FormatG(val) \o "\""

boolAttr(name, val) == name \o "=\"" \o (IF val THEN "true" ELSE "false") \o "\""

stringAttr(name, val) == name \o "=\"" \o val \o "\""

(***************************************************************************)
(* valueMap and Style.  A valueMap is nil or a map; Get, Set and Unset     *)
(* all allocate the map when it is nil.                                    *)
(***************************************************************************)
EmptyMap == [k \in {} |-> ""]

NilMap == [isNil |-> TRUE, m |-> EmptyMap]

valueMap_Get(vm) == [isNil |-> FALSE, m |-> vm.m]

valueMap_Set(vm, k, v) ==
    [isNil |-> FALSE,
     m |-> [x \in (DOMAIN vm.m) \cup {k} |-> IF x = k THEN v ELSE vm.m[x]]]

valueMap_Unset(vm, k) ==
    [isNil |-> FALSE, m |-> [x \in (DOMAIN vm.m) \ {k} |-> vm.m[x]]]

\* The keys of m in the order one `range` over the map yields them: Go leaves
\* the order unspecified, so the caller supplies it (order, a permutation of
\* all keys).
RECURSIVE RangeKeys(_, _, _)
RangeKeys(m, order, i) ==
    IF i > Len(order) THEN <<>>
    ELSE IF order[i] \in DOMAIN m
         THEN <<order[i]>> \o RangeKeys(m, order, i + 1)
         ELSE RangeKeys(m, order, i + 1)

StyleOuts(m, ks) == [i \in 1..Len(ks) |-> ks[i] \o ":" \o m[ks[i]]]

Style_attrString(s, order) ==
    IF s.isNil THEN ""
    ELSE "style=\"" \o Join(StyleOuts(s.m, RangeKeys(s.m, order, 1)), ";") \o "\""

(***************************************************************************)
(* Transform: the formatted operations, in append order.                   *)
(***************************************************************************)
MatrixStr(a, b, c, d, e, f) ==
    "matrix(" \o FormatG(a) \o "," \o FormatG(b) \o "," \o FormatG(c) \o ","
              \o FormatG(d) \o "," \o FormatG(e) \o "," \o FormatG(f) \o ")"

TranslateStr(tx, ty) == "translate(" \o FormatG(tx) \o "," \o FormatG(ty) \o ")"

ScaleStr(sx, sy) == "scale(" \o FormatG(sx) \o "," \o FormatG(sy) \o ")"

RotateStr(angle, cx, cy) ==
    "rotate(" \o FormatG(angle) \o "," \o FormatG(cx) \o "," \o FormatG(cy) \o ")"

SkewXStr(angle) == "skewX(" \o FormatG(angle) \o ")"

SkewYStr(angle) == "skewY(" \o FormatG(angle) \o ")"

Transform_attrString(t) == "transform=\"" \o Join(t, " ") \o "\""

(***************************************************************************)
(* ViewBox.                                                                *)
(***************************************************************************)
ZeroViewBox == [minX |-> 0, minY |-> 0, width |-> 0, height |-> 0, isSet |-> FALSE]

ViewBox_attrString(v) ==
    IF ~v.isSet THEN ""
    ELSE "viewBox=\"" \o FormatG(v.minX) \o " " \o FormatG(v.minX) \o " "
                      \o FormatG(v.width) \o " " \o FormatG(v.height) \o "\""

(***************************************************************************)
(* BaseAttrs and ShapeAttrs.                                               *)
(***************************************************************************)
BaseAttrs_attrStrings(a, order) ==
    LET extString == IF a.ExternalResourcesRequired
                     THEN boolAttr("externalResourcesRequired", a.ExternalResourcesRequired)
                     ELSE ""
    IN  <<Style_attrString(a.Style, order), extString, a.Class>>

ShapeAttrs_attrStrings(a, order) ==
    Append(BaseAttrs_attrStrings(a, order), Transform_attrString(a.Transform))

(***************************************************************************)
(* The node kinds.  Each record holds the fields of the Go struct, with    *)
(* the embedded BaseAttrs / ShapeAttrs / container fields promoted.        *)
(***************************************************************************)
SVGNode(x, y, w, h) ==
    [kind |-> "svg", Style |-> NilMap, ExternalResourcesRequired |-> FALSE, Class |-> "",
     name |-> "svg", contents |-> <<>>, ViewBox |-> ZeroViewBox,
     Width |-> w, Height |-> h, X |-> x, Y |-> y]

NewSVG(width, height) == SVGNode(0, 0, width, height)

GroupNode ==
    [kind |-> "g", Style |-> NilMap, ExternalResourcesRequired |-> FALSE, Class |-> "",
     Transform |-> <<>>, name |-> "g", contents |-> <<>>]

CircleNode(cx, cy, r) ==
    [kind |-> "circle", Style |-> NilMap, ExternalResourcesRequired |-> FALSE, Class |-> "",
     Transform |-> <<>>, Cx |-> cx, Cy |-> cy, R |-> r]

EllipseNode(cx, cy, rx, ry) ==
    [kind |-> "ellipse", Style |-> NilMap, ExternalResourcesRequired |-> FALSE, Class |-> "",
     Transform |-> <<>>, Cx |-> cx, Cy |-> cy, Rx |-> rx, Ry |-> ry]

RectNode(x, y, w, h) ==
    [kind |-> "rect", Style |-> NilMap, ExternalResourcesRequired |-> FALSE, Class |-> "",
     Transform |-> <<>>, Width |-> w, Height |-> h, X |-> x, Y |-> y]

PolygonNode(pts) ==
    [kind |-> "polygon", Style |-> NilMap, ExternalResourcesRequired |-> FALSE, Class |-> "",
     Transform |-> <<>>, Points |-> pts]

PolylineNode(pts) ==
    [kind |-> "polyline", Style |-> NilMap, ExternalResourcesRequired |-> FALSE, Class |-> "",
     Transform |-> <<>>, Points |-> pts]

LineNode(x1, y1, x2, y2) ==
    [kind |-> "line", Style |-> NilMap, ExternalResourcesRequired |-> FALSE, Class |-> "",
     Transform |-> <<>>, X1 |-> x1, X2 |-> x2, Y1 |-> y1, Y2 |-> y2]

PathNode ==
    [kind |-> "path", Style |-> NilMap, ExternalResourcesRequired |-> FALSE, Class |-> "",
     Transform |-> <<>>, d |-> <<>>, PathLength |-> 0]

Point(x, y) == [X |-> x, Y |-> y]

Point_coordString(p) == FormatG(p.X) \o "," \o FormatG(p.Y)

(***************************************************************************)
(* Attribute fragments of each node kind.                                  *)
(***************************************************************************)
SVG_attrStrings(s, order) ==
    BaseAttrs_attrStrings(s, order) \o
    <<ViewBox_attrString(s.ViewBox),
      floatAttr("width", s.Width), floatAttr("height", s.Height),
      floatAttr("x", s.X), floatAttr("y", s.Y),
      stringAttr("xmlns", "http://www.w3.org/2000/svg")>>

Circle_attrStrings(c, order) ==
    ShapeAttrs_attrStrings(c, order) \o
    <<floatAttr("cx", c.Cx), floatAttr("cy", c.Cy), floatAttr("r", c.R)>>

Ellipse_attrStrings(e, order) ==
    ShapeAttrs_attrStrings(e, order) \o
    <<floatAttr("cx", e.Cx), floatAttr("cy", e.Cy),
      floatAttr("rx", e.Rx), floatAttr("ry", e.Ry)>>

Rect_attrStrings(r, order) ==
    ShapeAttrs_attrStrings(r, order) \o
    <<floatAttr("width", r.Width), floatAttr("height", r.Height),
      floatAttr("x", r.X), floatAttr("y", r.Y)>>

PointsAttr(pts) ==
    stringAttr("points", Join([i \in 1..Len(pts) |-> Point_coordString(pts[i])], " "))

Polygon_attrStrings(p, order) ==
    Append(ShapeAttrs_attrStrings(p, order), PointsAttr(p.Points))

Polyline_attrStrings(p, order) ==
    Append(ShapeAttrs_attrStrings(p, order), PointsAttr(p.Points))

Line_attrStrings(n, order) ==
    ShapeAttrs_attrStrings(n, order) \o
    <<floatAttr("x1", n.X1), floatAttr("y1", n.Y1),
      floatAttr("x2", n.X2), floatAttr("y2", n.Y2)>>

(***************************************************************************)
(* Path commands: each body flattens to its argument tokens.               *)
(***************************************************************************)
RECURSIVE PtStrings(_, _)
PtStrings(pts, i) ==
    IF i > Len(pts) THEN <<>>
    ELSE <<FormatG(pts[i].X), FormatG(pts[i].Y)>> \o PtStrings(pts, i + 1)

mCmd_strings(m) == PtStrings(m.pts, 1)

zCmd_strings(z) == <<>>

elCmd_strings(e) == PtStrings(e.pts, 1)

hCmd_strings(h) == [i \in 1..Len(h.xs) |-> FormatG(h.xs[i])]

vCmd_strings(v) == [i \in 1..Len(v.ys) |-> FormatG(v.ys[i])]

CCurve(x1, y1, x2, y2, x, y) == [X1 |-> x1, Y1 |-> y1, X2 |-> x2, Y2 |-> y2, X |-> x, Y |-> y]

SCurve(x2, y2, x, y) == [X2 |-> x2, Y2 |-> y2, X |-> x, Y |-> y]

QCurve(x1, y1, x, y) == [X1 |-> x1, Y1 |-> y1, X |-> x, Y |-> y]

RECURSIVE cCmd_stringsFrom(_, _)
cCmd_stringsFrom(cvs, i) ==
    IF i > Len(cvs) THEN <<>>
    ELSE <<FormatG(cvs[i].X1), FormatG(cvs[i].Y1), FormatG(cvs[i].X2),
           FormatG(cvs[i].Y2), FormatG(cvs[i].X), FormatG(cvs[i].Y)>>
         \o cCmd_stringsFrom(cvs, i + 1)

cCmd_strings(c) == cCmd_stringsFrom(c.cvs, 1)

RECURSIVE sCmd_stringsFrom(_, _)
sCmd_stringsFrom(cvs, i) ==
    IF i > Len(cvs) THEN <<>>
    ELSE <<FormatG(cvs[i].X2), FormatG(cvs[i].Y2), FormatG(cvs[i].X), FormatG(cvs[i].Y)>>
         \o sCmd_stringsFrom(cvs, i + 1)

sCmd_strings(c) == sCmd_stringsFrom(c.cvs, 1)

RECURSIVE qCmd_stringsFrom(_, _)
qCmd_stringsFrom(cvs, i) ==
    IF i > Len(cvs) THEN <<>>
    ELSE <<FormatG(cvs[i].X1), FormatG(cvs[i].Y1), FormatG(cvs[i].X), FormatG(cvs[i].Y)>>
         \o qCmd_stringsFrom(cvs, i + 1)

qCmd_strings(c) == qCmd_stringsFrom(c.cvs, 1)

tCmd_strings(c) == PtStrings(c.pts, 1)

\* cmd.body.strings(): the dynamic dispatch on the body's type.
cmdBody_strings(body) ==
    CASE body.type = "mCmd" -> mCmd_strings(body)
      [] body.type = "zCmd" -> zCmd_strings(body)
      [] body.type = "elCmd" -> elCmd_strings(body)
      [] body.type = "hCmd" -> hCmd_strings(body)
      [] body.type = "vCmd" -> vCmd_strings(body)
      [] body.type = "cCmd" -> cCmd_strings(body)
      [] body.type = "sCmd" -> sCmd_strings(body)
      [] body.type = "qCmd" -> qCmd_strings(body)
      [] body.type = "tCmd" -> tCmd_strings(body)

(***************************************************************************)
(* Path.pathStr: the separators and tokens collected in outs, with the     *)
(* running length accumLen deciding between " " and "\n".                  *)
(***************************************************************************)
WrapLimit == 255

\* One arm of the if (accumLen > 255) in pathStr: a newline and a count of
\* zero, or a space and the count kept.
emit(st, tok, len) ==
    IF len > WrapLimit
    THEN [outs |-> st.outs \o <<"\n", tok>>, accumLen |-> 0]
    ELSE [outs |-> st.outs \o <<" ", tok>>, accumLen |-> len]

RECURSIVE pathStrBody(_, _, _)
pathStrBody(bodyStrs, j, st) ==
    IF j > Len(bodyStrs) THEN st
    ELSE pathStrBody(bodyStrs, j + 1, emit(st, bodyStrs[j], st.accumLen + Len(bodyStrs[j])))

pathStrCmd(c, st) ==
    pathStrBody(cmdBody_strings(c.body), 1, emit(st, c.name, st.accumLen + 1))

RECURSIVE pathStrCmds(_, _, _)
pathStrCmds(d, i, st) ==
    IF i > Len(d) THEN st ELSE pathStrCmds(d, i + 1, pathStrCmd(d[i], st))

dropFirst_Keep(outs) == outs

dropFirst(outs) == IF Len(outs) > 0 THEN Tail(outs) ELSE outs

pathStrOuts(d) == dropFirst(pathStrCmds(d, 1, [outs |-> <<>>, accumLen |-> 0]).outs)

pathStr(p) == Join(pathStrOuts(p.d), "")

Path_attrStrings(p, order) ==
    Append(ShapeAttrs_attrStrings(p, order), stringAttr("d", pathStr(p)))

(***************************************************************************)
(* The output sink (an io.Writer).  It records every Write call it gets,   *)
(* accepts the bytes of the calls that succeed, and fails its failAt-th    *)
(* call with failErr (failAt = 0: it never fails).                         *)
(***************************************************************************)
NoErr == "nil"

Errors == {"EIO", "EPIPE"}

NewSink(failAt, failErr) ==
    [calls |-> <<>>, out |-> "", failAt |-> failAt, failErr |-> failErr]

Write(w, data) ==
    IF Len(w.calls) + 1 = w.failAt
    THEN [w |-> [w EXCEPT !.calls = Append(@, data)], err |-> w.failErr]
    ELSE [w |-> [w EXCEPT !.calls = Append(@, data), !.out = @ \o data], err |-> NoErr]

(***************************************************************************)
(* Rendering.  Every render returns [w, err]: the sink as it leaves it and *)
(* the error it returns.  orders[i] is the order in which the range over   *)
(* the Style map of nodes[i] yields its keys during this invocation.       *)
(***************************************************************************)
Circle_render(c, w, order) ==
    Write(w, "<circle " \o Join(Circle_attrStrings(c, order), " ") \o "/>")

Ellipse_render(e, w, order) ==
    Write(w, "<ellipse " \o Join(Ellipse_attrStrings(e, order), " ") \o "/>")

Rect_render(r, w, order) ==
    Write(w, "<rect " \o Join(Rect_attrStrings(r, order), " ") \o "/>")

Polygon_render(p, w, order) ==
    Write(w, "<" \o "polygon" \o " " \o Join(Polygon_attrStrings(p, order), " ") \o "/>")

Polyline_render(p, w, order) ==
    Write(w, "<" \o "polyline" \o " " \o Join(Polyline_attrStrings(p, order), " ") \o "/>")

Line_render(n, w, order) ==
    Write(w, "<" \o "line" \o " " \o Join(Line_attrStrings(n, order), " ") \o "/>")

Path_render(p, w, order) ==
    Write(w, "<" \o "path" \o " " \o Join(Path_attrStrings(p, order), " ") \o "/>")

opening(c, attrs) == "<" \o c.name \o " " \o Join(attrs, " ") \o ">"

RECURSIVE renderable_render(_, _, _)
RECURSIVE renderContents(_, _, _, _)

\* if err != nil { return err }: the rest of the render runs only on success.
\* The loop of container.render over c.contents, from index i on.
renderNext_IgnoreError(r, contents, i, orders) ==
    renderContents(contents, i + 1, r.w, orders)

renderNext(r, contents, i, orders) ==
    IF r.err # NoErr THEN r ELSE renderContents(contents, i + 1, r.w, orders)

renderContents(contents, i, w, orders) ==
    IF i > Len(contents) THEN [w |-> w, err |-> NoErr]
    ELSE renderNext(renderable_render(contents[i], w, orders), contents, i, orders)

thenContents(opened, c, orders) ==
    IF opened.err # NoErr THEN opened ELSE renderContents(c.contents, 1, opened.w, orders)

closing(c) == "</" \o c.name \o ">"

thenClosing_Skip(inner, c) == inner

thenClosing(inner, c) == IF inner.err # NoErr THEN inner ELSE Write(inner.w, closing(c))

container_render(c, w, attrs, orders) ==
    thenClosing(thenContents(Write(w, opening(c, attrs)), c, orders), c)

SVG_render(s, w, order, orders) == container_render(s, w, SVG_attrStrings(s, order), orders)

Group_render(g, w, order, orders) ==
    container_render(g, w, ShapeAttrs_attrStrings(g, order), orders)

\* r.render(w) on a renderable: the dynamic dispatch on the node's type.
renderable_render(id, w, orders) ==
    LET n == nodes[id]
        order == orders[id]
    IN  CASE n.kind = "svg" -> SVG_render(n, w, order, orders)
          [] n.kind = "g" -> Group_render(n, w, order, orders)
          [] n.kind = "circle" -> Circle_render(n, w, order)
          [] n.kind = "ellipse" -> Ellipse_render(n, w, order)
          [] n.kind = "rect" -> Rect_render(n, w, order)
          [] n.kind = "polygon" -> Polygon_render(n, w, order)
          [] n.kind = "polyline" -> Polyline_render(n, w, order)
          [] n.kind = "line" -> Line_render(n, w, order)
          [] n.kind = "path" -> Path_render(n, w, order)

Prolog == "<?xml version=\"1.0\"?>"

thenRender(top, id, orders) ==
    IF top.err # NoErr THEN top ELSE SVG_render(nodes[id], top.w, orders[id], orders)

SVG_Render(id, w, orders) == thenRender(Write(w, Prolog), id, orders)

SVG_RenderFragment(id, w, orders) == SVG_render(nodes[id], w, orders[id], orders)

(***************************************************************************)
(* Inputs.                                                                 *)
(***************************************************************************)
Root == 1

RootSizes == {<<100, 50>>}

StyleKeys == {"fill", "stroke"}

StyleValues == {"red"}

DefaultOrder == <<"fill", "stroke">>

ReverseOrder == <<"stroke", "fill">>

\* One iteration order per node; only a map of two or more keys has more
\* than one order to offer.
MultiKeyed == {i \in 1..Len(nodes) : Cardinality(DOMAIN nodes[i].Style.m) >= 2}

Orders ==
    {[i \in 1..Len(nodes) |-> IF i \in flip THEN ReverseOrder ELSE DefaultOrder] :
        flip \in SUBSET MultiKeyed}

IsContainer(n) == n.kind \in {"svg", "g"}

Containers == {i \in 1..Len(nodes) : IsContainer(nodes[i])}

\* The number of Write calls a full-document render of the tree makes.
RECURSIVE WritesFrom(_)
WritesFrom(i) ==
    IF i > Len(nodes) THEN 0
    ELSE (IF IsContainer(nodes[i]) THEN 2 ELSE 1) + WritesFrom(i + 1)

Sinks(nWrites) ==
    {NewSink(0, NoErr)} \cup {NewSink(k, e) : k \in 1..nWrites, e \in Errors}

NoRun == [mode |-> "none", w |-> NewSink(0, NoErr), err |-> NoErr]

(***************************************************************************)
(* Construction calls.  Each creates the child, appends its pointer to the *)
(* parent's contents and returns it.                                       *)
(***************************************************************************)
appendContents_Prepend(contents, r) == <<r>> \o contents

appendContents(contents, r) == Append(contents, r)

Construct(c, child) ==
    LET r == Len(nodes) + 1
    IN  /\ nodes' = Append([nodes EXCEPT ![c].contents = appendContents(@, r)], child)
        /\ built' = Append(built, <<c, r>>)
        /\ run' = NoRun

SVG(c, x, y, w, h) == IsContainer(nodes[c]) /\ Construct(c, SVGNode(x, y, w, h))

Circle(c, cx, cy, r) == IsContainer(nodes[c]) /\ Construct(c, CircleNode(cx, cy, r))

Ellipse(c, cx, cy, rx, ry) == IsContainer(nodes[c]) /\ Construct(c, EllipseNode(cx, cy, rx, ry))

Rect(c, x, y, w, h) == IsContainer(nodes[c]) /\ Construct(c, RectNode(x, y, w, h))

Polygon(c, pts) == IsContainer(nodes[c]) /\ Construct(c, PolygonNode(pts))

Polyline(c, pts) == IsContainer(nodes[c]) /\ Construct(c, PolylineNode(pts))

Line(c, x1, y1, x2, y2) == IsContainer(nodes[c]) /\ Construct(c, LineNode(x1, y1, x2, y2))

Path(c) == IsContainer(nodes[c]) /\ Construct(c, PathNode)

Group(c) == nodes[c].kind = "svg" /\ Construct(c, GroupNode)

(***************************************************************************)
(* The two render entry points, called on the root with a sink that fails  *)
(* at a chosen call or never.                                              *)
(***************************************************************************)
Outcome(mode, r) == [mode |-> mode, w |-> r.w, err |-> r.err]

Render(w, orders) ==
    /\ run' = Outcome("full", SVG_Render(Root, w, orders))
    /\ UNCHANGED <<nodes, built>>

RenderFragment(w, orders) ==
    /\ run' = Outcome("fragment", SVG_RenderFragment(Root, w, orders))
    /\ UNCHANGED <<nodes, built>>

(***************************************************************************)
(* The tree specification: construction calls in any mix on any container, *)
(* and renders.                                                            *)
(***************************************************************************)
Init ==
    /\ nodes \in {<<NewSVG(s[1], s[2])>> : s \in RootSizes}
    /\ built = <<>>
    /\ run = NoRun

Coords == {<<5, 7, 10, 20>>}

CircleArgs == {<<0, 0, 1>>, <<5, 7, 1234567>>}

PointLists == {<<Point(0, 0), Point(10, 0), Point(10, 10)>>}

\* The containers a construction call may be made on while fewer than limit
\* nodes hang below the root.
Targets(limit) == IF Len(nodes) <= limit THEN Containers ELSE {}

Next ==
    \/ \E c \in Targets(MaxNodes) : \E a \in Coords : SVG(c, a[1], a[2], a[3], a[4])
    \/ \E c \in Targets(MaxNodes) : \E a \in CircleArgs : Circle(c, a[1], a[2], a[3])
    \/ \E c \in Targets(MaxNodes) : \E a \in Coords : Ellipse(c, a[1], a[2], a[3], a[4])
    \/ \E c \in Targets(MaxNodes) : \E a \in Coords : Rect(c, a[1], a[2], a[3], a[4])
    \/ \E c \in Targets(MaxNodes) : \E pts \in PointLists : Polygon(c, pts)
    \/ \E c \in Targets(MaxNodes) : \E pts \in PointLists : Polyline(c, pts)
    \/ \E c \in Targets(MaxNodes) : \E a \in Coords : Line(c, a[1], a[2], a[3], a[4])
    \/ \E c \in Targets(MaxNodes) : Path(c)
    \/ \E c \in Targets(MaxNodes) : Group(c)
    \/ \E w \in Sinks(1 + WritesFrom(1)) : \E orders \in Orders : Render(w, orders)
    \/ \E w \in Sinks(WritesFrom(1)) : \E orders \in Orders : RenderFragment(w, orders)

Spec == Init /\ [][Next]_vars

(***************************************************************************)
(* Reading the sink: every Write call of a render carries one tag (or the  *)
(* prolog).                                                                *)
(***************************************************************************)
IsClosingTag(t) == SubSeq(t, 1, 2) = "</"

IsLeafTag(t) == SubSeq(t, Len(t) - 1, Len(t)) = "/>"

RECURSIVE NameEnd(_, _)
NameEnd(t, i) ==
    IF i > Len(t) \/ SubSeq(t, i, i) \in {" ", ">", "/"} THEN i - 1 ELSE NameEnd(t, i + 1)

\* The element name of an opening, self-closing or closing tag.
ElementName(t) ==
    IF IsClosingTag(t) THEN SubSeq(t, 3, NameEnd(t, 3)) ELSE SubSeq(t, 2, NameEnd(t, 2))

Rendered == run.mode # "none"

Succeeded == Rendered /\ run.err = NoErr

\* The tags that start a node: the calls that are neither the prolog nor a
\* closing tag.
StartTags(calls) == SelectSeq(calls, LAMBDA t : t # Prolog /\ ~IsClosingTag(t))

\* The tag that starts node id, as its own render writes it.
StartTag(id, orders) ==
    CASE nodes[id].kind = "svg" -> opening(nodes[id], SVG_attrStrings(nodes[id], orders[id]))
      [] nodes[id].kind = "g" -> opening(nodes[id], ShapeAttrs_attrStrings(nodes[id], orders[id]))
      [] OTHER -> renderable_render(id, NewSink(0, NoErr), orders).w.out

DefaultOrders == [i \in 1..Len(nodes) |-> DefaultOrder]

\* The children of c in the order of the construction calls made on c.
RECURSIVE BuiltOn(_, _)
BuiltOn(c, i) ==
    IF i > Len(built) THEN <<>>
    ELSE IF built[i][1] = c THEN <<built[i][2]>> \o BuiltOn(c, i + 1)
    ELSE BuiltOn(c, i + 1)

\* The document in construction order: each node, then the subtrees of the
\* nodes constructed on it, in call order.
RECURSIVE BuiltOrder(_)
RECURSIVE BuiltOrderOf(_, _)
BuiltOrderOf(kids, i) ==
    IF i > Len(kids) THEN <<>> ELSE BuiltOrder(kids[i]) \o BuiltOrderOf(kids, i + 1)

BuiltOrder(id) == <<id>> \o BuiltOrderOf(BuiltOn(id, 1), 1)

\* C1: a successful render writes the start tags of the nodes in exactly the
\* order of the construction calls: under every container the i-th child
\* rendered is the i-th child constructed, none dropped, duplicated or merged.
C1_ChildOrder ==
    Succeeded =>
        StartTags(run.w.calls) =
            [i \in 1..Len(nodes) |-> StartTag(BuiltOrder(Root)[i], DefaultOrders)]

C1_Witness ==
    /\ Succeeded
    /\ Len(nodes[Root].contents) >= 2
    /\ nodes[nodes[Root].contents[1]].kind # nodes[nodes[Root].contents[2]].kind

\* C2: when a write to the sink fails, that call is the last one the render
\* issues, the error returned is the sink's error, and the sink holds what
\* the earlier calls wrote.
C2_AbortOnWriteError ==
    (Rendered /\ run.w.failAt > 0) =>
        /\ Len(run.w.calls) = run.w.failAt
        /\ run.err = run.w.failErr
        /\ run.w.out = Join(SubSeq(run.w.calls, 1, run.w.failAt - 1), "")

\* A failure on the way down: inside a nested container, with siblings and
\* closing tags still to come.
C2_Witness ==
    /\ Rendered
    /\ run.err \in Errors
    /\ Len(nodes) >= 3
    /\ run.w.failAt >= 2
    /\ run.w.failAt < WritesFrom(1)

(***************************************************************************)
(* Nesting.                                                                *)
(***************************************************************************)
ParentOf(id) ==
    CHOOSE c \in 1..Len(nodes) :
        IsContainer(nodes[c]) /\ \E j \in 1..Len(nodes[c].contents) : nodes[c].contents[j] = id

RECURSIVE AncestorsOf(_)
AncestorsOf(id) == IF id = Root THEN <<>> ELSE Append(AncestorsOf(ParentOf(id)), ParentOf(id))

\* The nodes in document order: each node, then its contents.
RECURSIVE Preorder(_)
RECURSIVE PreorderOf(_, _)
PreorderOf(kids, i) ==
    IF i > Len(kids) THEN <<>> ELSE Preorder(kids[i]) \o PreorderOf(kids, i + 1)

Preorder(id) ==
    <<id>> \o (IF IsContainer(nodes[id]) THEN PreorderOf(nodes[id].contents, 1) ELSE <<>>)

\* Scan the calls with the stack of the containers opened and not yet closed;
\* k nodes have been started.  A node is written while exactly its ancestors
\* are open; a closing tag closes the innermost open container; at the end
\* nothing is open and every node has been written.
RECURSIVE Nested(_, _, _, _, _)
Nested(calls, pre, i, stack, k) ==
    IF i > Len(calls) THEN stack = <<>> /\ k = Len(pre)
    ELSE IF calls[i] = Prolog THEN i = 1 /\ Nested(calls, pre, i + 1, stack, k)
    ELSE IF IsClosingTag(calls[i])
         THEN /\ stack # <<>>
              /\ calls[i] = closing(nodes[stack[Len(stack)]])
              /\ Nested(calls, pre, i + 1, SubSeq(stack, 1, Len(stack) - 1), k)
    ELSE /\ k < Len(pre)
         /\ ElementName(calls[i]) = nodes[pre[k + 1]].kind
         /\ stack = AncestorsOf(pre[k + 1])
         /\ IsLeafTag(calls[i]) = ~IsContainer(nodes[pre[k + 1]])
         /\ Nested(calls, pre, i + 1,
                   IF IsContainer(nodes[pre[k + 1]]) THEN Append(stack, pre[k + 1]) ELSE stack,
                   k + 1)

\* C10: a successful render is properly nested: whenever a node is written
\* the containers opened and not yet closed are exactly its ancestors, every
\* container is closed once, after its descendants and before its next
\* sibling, and a leaf writes one self-closing tag.
C10_ProperNesting == Succeeded => Nested(run.w.calls, Preorder(Root), 1, <<>>, 0)

\* A rendered tree with a node two levels below the root.
C10_Witness ==
    /\ Succeeded
    /\ \E id \in 2..Len(nodes) : ParentOf(id) # Root

(***************************************************************************)
(* The path specification: the append calls of Path, on the paths of a     *)
(* document built by NewSVG(...).Path().                                   *)
(***************************************************************************)
addCmd(p, name, body) ==
    /\ nodes[p].kind = "path"
    /\ nodes' = [nodes EXCEPT ![p].d = Append(@, [name |-> name, body |-> body])]
    /\ UNCHANGED built
    /\ run' = NoRun

Ma(p, pts) == addCmd(p, "M", [type |-> "mCmd", pts |-> pts])

Mr(p, pts) == addCmd(p, "m", [type |-> "mCmd", pts |-> pts])

Z(p) == addCmd(p, "z", [type |-> "zCmd"])

La(p, pts) == addCmd(p, "L", [type |-> "elCmd", pts |-> pts, isAbs |-> FALSE])

Lr(p, pts) == addCmd(p, "l", [type |-> "elCmd", pts |-> pts, isAbs |-> FALSE])

Ha(p, xs) == addCmd(p, "H", [type |-> "hCmd", xs |-> xs, isAbs |-> FALSE])

Hr(p, xs) == addCmd(p, "h", [type |-> "hCmd", xs |-> xs, isAbs |-> FALSE])

Va(p, ys) == addCmd(p, "V", [type |-> "vCmd", ys |-> ys, isAbs |-> FALSE])

Vr(p, ys) == addCmd(p, "v", [type |-> "vCmd", ys |-> ys, isAbs |-> FALSE])

Ca(p, cvs) == addCmd(p, "C", [type |-> "cCmd", cvs |-> cvs, isAbs |-> FALSE])

Cr(p, cvs) == addCmd(p, "c", [type |-> "cCmd", cvs |-> cvs, isAbs |-> FALSE])

Sa(p, cvs) == addCmd(p, "S", [type |-> "sCmd", cvs |-> cvs, isAbs |-> FALSE])

Sr(p, cvs) == addCmd(p, "s", [type |-> "sCmd", cvs |-> cvs, isAbs |-> FALSE])

Qa(p, cvs) == addCmd(p, "Q", [type |-> "qCmd", cvs |-> cvs, isAbs |-> FALSE])

Qr(p, cvs) == addCmd(p, "q", [type |-> "qCmd", cvs |-> cvs, isAbs |-> FALSE])

Ta(p, cvs) == addCmd(p, "T", [type |-> "tCmd", pts |-> cvs, isAbs |-> FALSE])

Tr(p, cvs) == addCmd(p, "t", [type |-> "tCmd", pts |-> cvs, isAbs |-> FALSE])

\* Coordinates whose %g text is 16 and 14 characters long.
Wide == 0 - 1234567891

Mid == 0 - 12345678

\* Argument lists: a short one, and long ones whose tokens fill a line.  In
\* LongXs the running length is exactly 255 after the 16th value.
ShortPts == <<Point(0, 10)>>

LongPts == [i \in 1..8 |-> Point(Wide, Wide)]

ShortXs == <<10>>

LongXs == [i \in 1..17 |-> IF i = 16 THEN Mid ELSE Wide]

ShortCCurves == <<CCurve(0, 0, 10, 10, 20, 0)>>

LongCCurves == [i \in 1..3 |-> CCurve(Wide, Wide, Wide, Wide, Wide, Wide)]

ShortSCurves == <<SCurve(10, 10, 20, 0)>>

LongSCurves == [i \in 1..4 |-> SCurve(Wide, Wide, Wide, Wide)]

ShortQCurves == <<QCurve(10, 10, 20, 0)>>

LongQCurves == [i \in 1..4 |-> QCurve(Wide, Wide, Wide, Wide)]

PtArgs == {ShortPts, LongPts}

MoveArgs == {<<>>, LongPts}

XArgs == {ShortXs, LongXs}

CCurveArgs == {ShortCCurves, LongCCurves}

SCurveArgs == {ShortSCurves, LongSCurves}

QCurveArgs == {ShortQCurves, LongQCurves}

Paths == {i \in 1..Len(nodes) : nodes[i].kind = "path"}

\* The paths that may still take a command.
OpenPaths == {p \in Paths : Len(nodes[p].d) < MaxCmds}

InitPath ==
    /\ nodes \in {<<[NewSVG(s[1], s[2]) EXCEPT !.contents = <<2>>], PathNode>> : s \in RootSizes}
    /\ built = << <<Root, 2>> >>
    /\ run = NoRun

NextPath ==
    \/ \E p \in OpenPaths : \E pts \in MoveArgs : Ma(p, pts)
    \/ \E p \in OpenPaths : \E pts \in MoveArgs : Mr(p, pts)
    \/ \E p \in OpenPaths : Z(p)
    \/ \E p \in OpenPaths : \E pts \in PtArgs : La(p, pts)
    \/ \E p \in OpenPaths : \E pts \in PtArgs : Lr(p, pts)
    \/ \E p \in OpenPaths : \E xs \in XArgs : Ha(p, xs)
    \/ \E p \in OpenPaths : \E xs \in XArgs : Hr(p, xs)
    \/ \E p \in OpenPaths : \E ys \in XArgs : Va(p, ys)
    \/ \E p \in OpenPaths : \E ys \in XArgs : Vr(p, ys)
    \/ \E p \in OpenPaths : \E cvs \in CCurveArgs : Ca(p, cvs)
    \/ \E p \in OpenPaths : \E cvs \in CCurveArgs : Cr(p, cvs)
    \/ \E p \in OpenPaths : \E cvs \in SCurveArgs : Sa(p, cvs)
    \/ \E p \in OpenPaths : \E cvs \in SCurveArgs : Sr(p, cvs)
    \/ \E p \in OpenPaths : \E cvs \in QCurveArgs : Qa(p, cvs)
    \/ \E p \in OpenPaths : \E cvs \in QCurveArgs : Qr(p, cvs)
    \/ \E p \in OpenPaths : \E cvs \in PtArgs : Ta(p, cvs)
    \/ \E p \in OpenPaths : \E cvs \in PtArgs : Tr(p, cvs)

SpecPath == InitPath /\ [][NextPath]_vars

(***************************************************************************)
(* Reading path text.                                                      *)
(***************************************************************************)
IsSeparator(ch) == ch = " " \/ ch = "\n"

HasSeparator(tok) == \E i \in 1..Len(tok) : IsSeparator(SubSeq(tok, i, i))

\* The total length of toks[lo..hi].
RECURSIVE LenSum(_, _, _)
LenSum(toks, lo, hi) ==
    IF lo > hi THEN 0
    ELSE IF lo = hi THEN Len(toks[lo])
    ELSE LenSum(toks, lo, (lo + hi) \div 2) + LenSum(toks, (lo + hi) \div 2 + 1, hi)

\* Where the i-th token starts in a text whose tokens are one character apart.
StartOf(toks, i) == LenSum(toks, 1, i - 1) + i

\* Cutting text at every space and newline yields exactly toks: the text is
\* the tokens in order, one separator character between neighbours, nothing
\* before the first token or after the last.  (The tokens hold no separator
\* and are not empty, so the cut is unambiguous.)
SplitsInto(text, toks) ==
    /\ \A i \in 1..Len(toks) : toks[i] # "" /\ ~HasSeparator(toks[i])
    /\ Len(text) = IF Len(toks) = 0 THEN 0 ELSE StartOf(toks, Len(toks)) + Len(toks[Len(toks)]) - 1
    /\ \A i \in 1..Len(toks) :
          /\ SubSeq(text, StartOf(toks, i), StartOf(toks, i) + Len(toks[i]) - 1) = toks[i]
          /\ i > 1 => IsSeparator(SubSeq(text, StartOf(toks, i) - 1, StartOf(toks, i) - 1))

\* The flattened tokens of the commands: each code, then its arguments.
RECURSIVE FlatTokens(_, _)
FlatTokens(d, i) ==
    IF i > Len(d) THEN <<>>
    ELSE <<d[i].name>> \o cmdBody_strings(d[i].body) \o FlatTokens(d, i + 1)

\* C4: cutting the path text at every space and newline gives exactly the
\* flattened tokens, none of them empty: one separator between neighbours,
\* none before the first token.
C4_WrapIsFormattingOnly ==
    \A p \in Paths : SplitsInto(pathStr(nodes[p]), FlatTokens(nodes[p].d, 1))

\* A path of two commands whose text is wrapped.
C4_Witness ==
    \E p \in Paths :
        /\ Len(nodes[p].d) >= 2
        /\ \E i \in 1..Len(pathStr(nodes[p])) : SubSeq(pathStr(nodes[p]), i, i) = "\n"

\* The encoder as the claim C3 describes it: after a wrap the running count
\* is the length of the wrapped token.
claimedEmit(st, tok, len) ==
    IF len > WrapLimit
    THEN [outs |-> st.outs \o <<"\n", tok>>, accumLen |-> Len(tok)]
    ELSE [outs |-> st.outs \o <<" ", tok>>, accumLen |-> len]

RECURSIVE claimedBody(_, _, _)
claimedBody(bodyStrs, j, st) ==
    IF j > Len(bodyStrs) THEN st
    ELSE claimedBody(bodyStrs, j + 1,
                     claimedEmit(st, bodyStrs[j], st.accumLen + Len(bodyStrs[j])))

RECURSIVE claimedCmds(_, _, _)
claimedCmds(d, i, st) ==
    IF i > Len(d) THEN st
    ELSE claimedCmds(d, i + 1,
                     claimedBody(cmdBody_strings(d[i].body), 1,
                                 claimedEmit(st, d[i].name, st.accumLen + Len(d[i].name))))

\* C3: the separators of the path text are those of the claimed encoder: a
\* newline before a token exactly when the running count with that token
\* exceeds 255, the count restarting at the length of the wrapped token.
C3_WrapCountsWrappedToken ==
    \A p \in Paths :
        pathStrOuts(nodes[p].d) =
            dropFirst(claimedCmds(nodes[p].d, 1, [outs |-> <<>>, accumLen |-> 0]).outs)

(***************************************************************************)
(* The attribute specification: the mutators of Style, Transform and       *)
(* ViewBox and the exported fields of BaseAttrs, on a small document, with *)
(* renders to a sink that never fails.                                     *)
(***************************************************************************)
Style_Get(n, k) ==
    /\ nodes' = [nodes EXCEPT ![n].Style = valueMap_Get(@)]
    /\ UNCHANGED built
    /\ run' = NoRun

Style_Set(n, k, v) ==
    /\ nodes' = [nodes EXCEPT ![n].Style = valueMap_Set(@, k, v)]
    /\ UNCHANGED built
    /\ run' = NoRun

Style_Unset(n, k) ==
    /\ nodes' = [nodes EXCEPT ![n].Style = valueMap_Unset(@, k)]
    /\ UNCHANGED built
    /\ run' = NoRun

HasTransform(n) == "Transform" \in DOMAIN nodes[n]

appendTransform(n, out) ==
    /\ HasTransform(n)
    /\ nodes' = [nodes EXCEPT ![n].Transform = Append(@, out)]
    /\ UNCHANGED built
    /\ run' = NoRun

Matrix(n, a, b, c, d, e, f) == appendTransform(n, MatrixStr(a, b, c, d, e, f))

Translate(n, tx, ty) == appendTransform(n, TranslateStr(tx, ty))

Scale(n, sx, sy) == appendTransform(n, ScaleStr(sx, sy))

Rotate(n, angle, cx, cy) == appendTransform(n, RotateStr(angle, cx, cy))

SkewX(n, angle) == appendTransform(n, SkewXStr(angle))

SkewY(n, angle) == appendTransform(n, SkewYStr(angle))

ViewBox_Set(n, minX, minY, width, height) ==
    /\ nodes[n].kind = "svg"
    /\ nodes' = [nodes EXCEPT ![n].ViewBox =
                    [minX |-> minX, minY |-> minY, width |-> width, height |-> height,
                     isSet |-> TRUE]]
    /\ UNCHANGED built
    /\ run' = NoRun

\* Assignments to the exported fields of BaseAttrs.
SetClass(n, class) ==
    /\ nodes' = [nodes EXCEPT ![n].Class = class]
    /\ UNCHANGED built
    /\ run' = NoRun

SetExternalResourcesRequired(n, val) ==
    /\ nodes' = [nodes EXCEPT ![n].ExternalResourcesRequired = val]
    /\ UNCHANGED built
    /\ run' = NoRun

\* The attribute settings a node carries.
SettingsOf(n) ==
    Cardinality(DOMAIN n.Style.m)
    + (IF "Transform" \in DOMAIN n THEN Len(n.Transform) ELSE 0)
    + (IF n.Class # "" THEN 1 ELSE 0)
    + (IF n.ExternalResourcesRequired THEN 1 ELSE 0)
    + (IF "ViewBox" \in DOMAIN n /\ n.ViewBox.isSet THEN 1 ELSE 0)

RECURSIVE SettingsFrom(_)
SettingsFrom(i) == IF i > Len(nodes) THEN 0 ELSE SettingsOf(nodes[i]) + SettingsFrom(i + 1)

\* The nodes that may still take a setting.
Settable == IF SettingsFrom(1) < MaxAttrs THEN 1..Len(nodes) ELSE {}

AllNodes == 1..Len(nodes)

Classes == {"hot"}

ViewBoxArgs == {<<10, 20, 100, 50>>}

NeverFails == NewSink(0, NoErr)

NextAttrs ==
    \/ \E c \in Targets(MaxAttrNodes) : \E a \in Coords : SVG(c, a[1], a[2], a[3], a[4])
    \/ \E c \in Targets(MaxAttrNodes) : \E a \in CircleArgs : Circle(c, a[1], a[2], a[3])
    \/ \E c \in Targets(MaxAttrNodes) : \E a \in Coords : Ellipse(c, a[1], a[2], a[3], a[4])
    \/ \E c \in Targets(MaxAttrNodes) : \E a \in Coords : Rect(c, a[1], a[2], a[3], a[4])
    \/ \E c \in Targets(MaxAttrNodes) : \E pts \in PointLists : Polygon(c, pts)
    \/ \E c \in Targets(MaxAttrNodes) : \E pts \in PointLists : Polyline(c, pts)
    \/ \E c \in Targets(MaxAttrNodes) : \E a \in Coords : Line(c, a[1], a[2], a[3], a[4])
    \/ \E c \in Targets(MaxAttrNodes) : Path(c)
    \/ \E c \in Targets(MaxAttrNodes) : Group(c)
    \/ \E n \in AllNodes : \E k \in StyleKeys : Style_Get(n, k)
    \/ \E n \in Settable : \E k \in StyleKeys : \E v \in StyleValues : Style_Set(n, k, v)
    \/ \E n \in AllNodes : \E k \in StyleKeys : Style_Unset(n, k)
    \/ \E n \in Settable : Matrix(n, 1, 0, 0, 1, 5, 7)
    \/ \E n \in Settable : Translate(n, 5, 7)
    \/ \E n \in Settable : Scale(n, 2, 2)
    \/ \E n \in Settable : Rotate(n, 90, 5, 7)
    \/ \E n \in Settable : SkewX(n, 30)
    \/ \E n \in Settable : SkewY(n, 30)
    \/ \E n \in Settable : \E a \in ViewBoxArgs : ViewBox_Set(n, a[1], a[2], a[3], a[4])
    \/ \E n \in Settable : \E class \in Classes : SetClass(n, class)
    \/ \E n \in Settable : SetExternalResourcesRequired(n, TRUE)
    \/ \E orders \in Orders : Render(NeverFails, orders)
    \/ \E orders \in Orders : RenderFragment(NeverFails, orders)

SpecAttrs == Init /\ [][NextAttrs]_vars

(***************************************************************************)
(* Reading the tags of a render.                                           *)
(***************************************************************************)
Contains(text, sub) ==
    \E i \in 1..(Len(text) - Len(sub) + 1) : SubSeq(text, i, i + Len(sub) - 1) = sub

\* The attribute fragments of a node, as its kind computes them.
attrStrings(n, order) ==
    CASE n.kind = "svg" -> SVG_attrStrings(n, order)
      [] n.kind = "g" -> ShapeAttrs_attrStrings(n, order)
      [] n.kind = "circle" -> Circle_attrStrings(n, order)
      [] n.kind = "ellipse" -> Ellipse_attrStrings(n, order)
      [] n.kind = "rect" -> Rect_attrStrings(n, order)
      [] n.kind = "polygon" -> Polygon_attrStrings(n, order)
      [] n.kind = "polyline" -> Polyline_attrStrings(n, order)
      [] n.kind = "line" -> Line_attrStrings(n, order)
      [] n.kind = "path" -> Path_attrStrings(n, order)

NonEmpty(fragments) == SelectSeq(fragments, LAMBDA f : f # "")

\* The tag of a leaf as the render contract words it: the non-empty
\* fragments, one space apart.
FilteredLeafTag(n, order) ==
    "<" \o n.kind \o " " \o Join(NonEmpty(attrStrings(n, order)), " ") \o "/>"

\* The tag written for the i-th node in document order.
TagOf(i) == StartTags(run.w.calls)[i]

NodeOf(i) == nodes[Preorder(Root)[i]]

\* C5: the bytes of a full-document render are the prolog followed by the
\* bytes of a fragment render of the same tree, whichever of the two is made
\* first.
C5_FullIsPrologThenFragment ==
    [][(/\ Succeeded /\ Succeeded'
        /\ nodes' = nodes
        /\ run.mode = "fragment" /\ run'.mode = "full")
       => run'.w.out = Prolog \o run.w.out]_vars

\* C6: a leaf is written as '<', its name, one space, its non-empty
\* attribute fragments one space apart, and '/>'.
C6_LeafFiltersEmptyFragments ==
    Succeeded =>
        \A i \in 1..Len(nodes) :
            ~IsContainer(NodeOf(i)) =>
                \E order \in {DefaultOrder, ReverseOrder} :
                    TagOf(i) = FilteredLeafTag(NodeOf(i), order)

\* C7: a tag carries a style attribute only if the node's Style holds a
\* property, and a transform attribute only if an operation was appended to
\* the node's Transform; style="" and transform="" are never written.
C7_NoEmptyValuedAttribute ==
    Succeeded =>
        \A i \in 1..Len(nodes) :
            /\ Contains(TagOf(i), "style=") => DOMAIN NodeOf(i).Style.m # {}
            /\ Contains(TagOf(i), "transform=") =>
                   "Transform" \in DOMAIN NodeOf(i) /\ NodeOf(i).Transform # <<>>

\* C8: two renders in the same mode with no mutation in between write the
\* same bytes.
C8_RenderIsDeterministic ==
    [][(/\ Succeeded /\ Succeeded'
        /\ nodes' = nodes
        /\ run'.mode = run.mode)
       => run'.w.out = run.w.out]_vars

ClaimedViewBox(v) ==
    "viewBox=\"" \o FormatG(v.minX) \o " " \o FormatG(v.minY) \o " "
                 \o FormatG(v.width) \o " " \o FormatG(v.height) \o "\""

\* C9: the root's tag carries viewBox="minX minY width height" when the
\* view-box was set, and no viewBox attribute when it was not.
C9_ViewBoxComponents ==
    Succeeded =>
        IF nodes[Root].ViewBox.isSet
        THEN Contains(TagOf(1), ClaimedViewBox(nodes[Root].ViewBox))
        ELSE ~Contains(TagOf(1), "viewBox=")

====
